---- MODULE Spec2Model ----
(***************************************************************************)
(* Model of src/src/client.rs: the typed request/response schema of a      *)
(* JSON-RPC client for a Bitcoin node with drivechain extensions.          *)
(*                                                                         *)
(* Every decode or encode of the file is a pure function.  The state       *)
(* machine is a caller that invokes one of them on an input (pc goes from  *)
(* "idle" to "done", with the operation, its argument and its result       *)
(* recorded) and then drops the result (Return).                           *)
(*                                                                         *)
(* Representation.                                                         *)
(*  - a string is a sequence of one-character strings;                     *)
(*  - a byte is a number in 0..255, a byte array a sequence of bytes;      *)
(*  - a JSON scalar is a record [t, n, b, s] (kind, number, boolean,       *)
(*    string), a JSON object a function from its keys to JSON scalars;     *)
(*  - a Result is Ok(v) or Err(e), e naming the kind of decode error.      *)
(***************************************************************************)
EXTENDS Integers, Sequences, FiniteSets, TLC

VARIABLES pc, op, arg, res

vars == <<pc, op, arg, res>>

Ok(v) == [ok |-> TRUE, v |-> v]
Err(e) == [ok |-> FALSE, e |-> e]

JNull == [t |-> "null", n |-> 0, b |-> FALSE, s |-> <<>>]
JNum(n) == [t |-> "number", n |-> n, b |-> FALSE, s |-> <<>>]
JBool(b) == [t |-> "bool", n |-> 0, b |-> b, s |-> <<>>]
JStr(s) == [t |-> "string", n |-> 0, b |-> FALSE, s |-> s]

(***************************************************************************)
(* Bounds of the inputs the model draws.                                   *)
(***************************************************************************)
\* Byte i of a sample byte array is (start + i * step) % 256, step in 0..MaxStep.
MaxStep == 2
\* Sample hex strings are up to MaxExtra bytes shorter or longer than the
\* array they are decoded into.
MaxExtra == 1

(***************************************************************************)
(* The hex crate (used at client.rs:179, 235, 237, 250) and                *)
(* serde_with::hex::Hex (client.rs:398, 403).                              *)
(***************************************************************************)
HexLower == <<"0", "1", "2", "3", "4", "5", "6", "7",
              "8", "9", "a", "b", "c", "d", "e", "f">>
HexUpper == <<"0", "1", "2", "3", "4", "5", "6", "7",
              "8", "9", "A", "B", "C", "D", "E", "F">>

\* hex's val(): the value of a hex digit of either case, -1 for any other
\* character (InvalidHexCharacter).
HexVal(c) ==
    IF \E i \in 1..16 : HexLower[i] = c
    THEN (CHOOSE i \in 1..16 : HexLower[i] = c) - 1
    ELSE IF \E i \in 1..16 : HexUpper[i] = c
         THEN (CHOOSE i \in 1..16 : HexUpper[i] = c) - 1
         ELSE -1

\* The bytes of the digit pairs of s, an even-length string of hex digits.
PairBytes(s) ==
    [i \in 1..(Len(s) \div 2) |-> HexVal(s[2 * i - 1]) * 16 + HexVal(s[2 * i])]

AllHex(s) == \A i \in 1..Len(s) : HexVal(s[i]) >= 0

\* <Vec<u8> as hex::FromHex>::from_hex, which is also hex::decode.
VecFromHex(s) ==
    IF Len(s) % 2 # 0 THEN Err("OddLength")
    ELSE IF ~AllHex(s) THEN Err("InvalidHexCharacter")
    ELSE Ok(PairBytes(s))

\* <[u8; N] as hex::FromHex>::from_hex without its length check: the first N
\* bytes, zero-padded.
ArrayFromHexTruncPad(s, N) ==
    IF Len(s) % 2 # 0 THEN Err("OddLength")
    ELSE IF ~AllHex(s) THEN Err("InvalidHexCharacter")
    ELSE Ok([i \in 1..N |-> IF i <= Len(s) \div 2 THEN PairBytes(s)[i] ELSE 0])

\* <[u8; N] as hex::FromHex>::from_hex (hex::decode_to_slice).
ArrayFromHex(s, N) ==
    IF Len(s) % 2 # 0 THEN Err("OddLength")
    ELSE IF Len(s) \div 2 # N THEN Err("InvalidStringLength")
    ELSE IF ~AllHex(s) THEN Err("InvalidHexCharacter")
    ELSE Ok(PairBytes(s))

\* The two digits of each byte, from the digit table tbl.
RECURSIVE ToHex(_, _)
ToHex(bytes, tbl) ==
    IF bytes = <<>> THEN <<>>
    ELSE <<tbl[(Head(bytes) \div 16) + 1], tbl[(Head(bytes) % 16) + 1]>>
         \o ToHex(Tail(bytes), tbl)

\* hex::encode: lowercase.
hex_encode(bytes) == ToHex(bytes, HexLower)

\* hex::serde::deserialize into Vec<u8>: the value must be a string.
hex_serde_deserialize_vec(x) ==
    IF x.t # "string" THEN Err("invalid type") ELSE VecFromHex(x.s)

\* hex::serde::deserialize into [u8; N].
hex_serde_deserialize_array(x, N) ==
    IF x.t # "string" THEN Err("invalid type") ELSE ArrayFromHex(x.s, N)

\* serde_with::hex::Hex as DeserializeAs<[u8; N]>: hex::decode, then
\* Vec<u8> -> [u8; N] by TryFrom, which fails unless the length is N.
serde_with_Hex_array(x, N) ==
    IF x.t # "string" THEN Err("invalid type")
    ELSE LET v == VecFromHex(x.s)
         IN  IF ~v.ok THEN v
             ELSE IF Len(v.v) # N THEN Err("Can't convert a Byte Vector")
             ELSE Ok(v.v)

Reverse(seq) == [i \in 1..Len(seq) |-> seq[Len(seq) + 1 - i]]

\* deserialize_reverse_hex with T = [u8; N], without the reversal.
deserialize_reverse_hex_NoReverse(x, N) ==
    LET bytes == hex_serde_deserialize_vec(x)
    IN  IF ~bytes.ok THEN bytes
        ELSE ArrayFromHex(hex_encode(bytes.v), N)

\* deserialize_reverse_hex with T = [u8; N].
deserialize_reverse_hex(x, N) ==
    LET bytes == hex_serde_deserialize_vec(x)
    IN  IF ~bytes.ok THEN bytes
        ELSE ArrayFromHex(hex_encode(Reverse(bytes.v)), N)

(***************************************************************************)
(* The hex fields that decode into a fixed-size byte array.                *)
(***************************************************************************)
CommitmentWidth == 32
PrevBytesWidth == 4
HashSerializedWidth == 32
TargetWidth == 32
NonceRangeWidth == 8

HexFields == {"h", "prevbytes", "hash_serialized_3", "target", "noncerange"}

FieldWidth(f) ==
    CASE f = "h" -> CommitmentWidth
      [] f = "prevbytes" -> PrevBytesWidth
      [] f = "hash_serialized_3" -> HashSerializedWidth
      [] f = "target" -> TargetWidth
      [] f = "noncerange" -> NonceRangeWidth

\* The decoder each field's attribute names.
DecodeHexField(f, x) ==
    CASE f = "h" -> deserialize_reverse_hex(x, CommitmentWidth)
      [] f = "prevbytes" -> hex_serde_deserialize_array(x, PrevBytesWidth)
      [] f = "hash_serialized_3" -> hex_serde_deserialize_array(x, HashSerializedWidth)
      [] f = "target" -> serde_with_Hex_array(x, TargetWidth)
      [] f = "noncerange" -> serde_with_Hex_array(x, NonceRangeWidth)

(***************************************************************************)
(* CompactTargetRepr (client.rs:53-84).  A u32 is the record [hi, lo] of   *)
(* its two 16-bit halves, hi * 65536 + lo.                                 *)
(***************************************************************************)
U32(hi, lo) == [hi |-> hi, lo |-> lo]

\* u32::from_str_radix(_, 16) on the digits that follow an optional sign.
RECURSIVE FromStrRadix16(_, _)
FromStrRadix16(digits, acc) ==
    IF digits = <<>> THEN Ok(acc)
    ELSE LET d == HexVal(Head(digits))
             lo == acc.lo * 16 + d
             hi == acc.hi * 16 + (lo \div 65536)
         IN  IF d < 0 THEN Err("InvalidDigit")
             ELSE IF hi >= 65536 THEN Err("PosOverflow")
             ELSE FromStrRadix16(Tail(digits), U32(hi, lo % 65536))

\* u32::from_str_radix(s, 16): a leading "+" is accepted, "-" is not.
u32_from_str_radix16(s) ==
    IF s = <<>> THEN Err("Empty")
    ELSE IF Len(s) = 1 /\ s[1] \in {"+", "-"} THEN Err("InvalidDigit")
    ELSE IF s[1] = "+" THEN FromStrRadix16(Tail(s), U32(0, 0))
    ELSE FromStrRadix16(s, U32(0, 0))

\* bitcoin::CompactTarget::from_unprefixed_hex: a "0x" prefix is an error.
from_unprefixed_hex(s) ==
    IF Len(s) >= 2 /\ s[1] = "0" /\ s[2] \in {"x", "X"} THEN Err("ContainsPrefix")
    ELSE u32_from_str_radix16(s)

\* <CompactTargetRepr as Deserialize> (DeserializeFromStr): from_str on a string.
CompactTargetRepr_deserialize(x) ==
    IF x.t # "string" THEN Err("invalid type") ELSE from_unprefixed_hex(x.s)

to_be_bytes(v) == <<v.hi \div 256, v.hi % 256, v.lo \div 256, v.lo % 256>>

to_le_bytes(v) == <<v.lo % 256, v.lo \div 256, v.hi % 256, v.hi \div 256>>

\* <CompactTargetRepr as Serialize>, from the little-endian bytes.
CompactTargetRepr_serialize_LittleEndian(v) == JStr(hex_encode(to_le_bytes(v)))

\* <CompactTargetRepr as Serialize>: the hex of the big-endian bytes.
CompactTargetRepr_serialize(v) == JStr(hex_encode(to_be_bytes(v)))

(***************************************************************************)
(* The witness types (client.rs:672-717, 747-781, 828-870).                *)
(***************************************************************************)
U8Witness(n) == [name |-> "U8Witness", lit |-> JNum(n)]
BoolWitness(b) == [name |-> "BoolWitness", lit |-> JBool(b)]
GetRawTransactionVerbose(b) == [name |-> "GetRawTransactionVerbose", lit |-> JBool(b)]

\* The witness types that implement Deserialize.
WitnessTypes ==
    {U8Witness(0), U8Witness(1), U8Witness(2)}
    \cup {BoolWitness(b) : b \in BOOLEAN}
    \cup {GetRawTransactionVerbose(b) : b \in BOOLEAN}

\* Serialize for U8Witness<U8>, BoolWitness<BOOL> and
\* GetRawTransactionVerbose<VERBOSE>: the const parameter is serialized.
Witness_serialize(w) == w.lit

\* The literal of monostate::MustBe!(..) in each Deserialize impl's Repr,
\* with U8Witness<2> written as a copy of U8Witness<1>.
ReprLiteral_CopyPaste(w) ==
    CASE w = U8Witness(0) -> JNum(0)
      [] w = U8Witness(1) -> JNum(1)
      [] w = U8Witness(2) -> JNum(1)
      [] w = BoolWitness(FALSE) -> JBool(FALSE)
      [] w = BoolWitness(TRUE) -> JBool(TRUE)
      [] w = GetRawTransactionVerbose(FALSE) -> JBool(FALSE)
      [] w = GetRawTransactionVerbose(TRUE) -> JBool(TRUE)

\* The literal of monostate::MustBe!(..) in each Deserialize impl's Repr.
ReprLiteral(w) ==
    CASE w = U8Witness(0) -> JNum(0)
      [] w = U8Witness(1) -> JNum(1)
      [] w = U8Witness(2) -> JNum(2)
      [] w = BoolWitness(FALSE) -> JBool(FALSE)
      [] w = BoolWitness(TRUE) -> JBool(TRUE)
      [] w = GetRawTransactionVerbose(FALSE) -> JBool(FALSE)
      [] w = GetRawTransactionVerbose(TRUE) -> JBool(TRUE)

\* monostate::MustBe!(lit): a value of the literal's kind that equals it.
MustBe(lit, x) ==
    IF x.t # lit.t THEN Err("invalid type")
    ELSE IF x.n # lit.n \/ x.b # lit.b THEN Err("invalid value")
    ELSE Ok(lit)

\* <W as Deserialize>::deserialize: Repr::deserialize(..)?; Ok(Self).
Witness_deserialize(w, x) ==
    LET r == MustBe(ReprLiteral(w), x)
    IN  IF r.ok THEN Ok(w) ELSE r

(***************************************************************************)
(* The response type of a call (client.rs:719-745, 783-822, 824-884): the  *)
(* impls of each trait, as (parameter types, Response) pairs.  A call      *)
(* compiles only for parameter types that have an impl.                    *)
(***************************************************************************)
GetBlockVerbosity_WithVerbosity2 ==
    {<<<<U8Witness(0)>>, "ConsensusEncoded<bitcoin::Block>">>,
     <<<<U8Witness(1)>>, "Block">>,
     <<<<U8Witness(2)>>, "Block">>}

GetBlockVerbosity ==
    {<<<<U8Witness(0)>>, "ConsensusEncoded<bitcoin::Block>">>,
     <<<<U8Witness(1)>>, "Block">>}

GetRawMempoolResponse_Swapped ==
    {<<<<BoolWitness(FALSE), BoolWitness(FALSE)>>, "Vec<Txid>">>,
     <<<<BoolWitness(FALSE), BoolWitness(TRUE)>>, "RawMempoolVerbose">>,
     <<<<BoolWitness(TRUE), BoolWitness(FALSE)>>, "RawMempoolWithSequence">>}

GetRawMempoolResponse ==
    {<<<<BoolWitness(FALSE), BoolWitness(FALSE)>>, "Vec<Txid>">>,
     <<<<BoolWitness(FALSE), BoolWitness(TRUE)>>, "RawMempoolWithSequence">>,
     <<<<BoolWitness(TRUE), BoolWitness(FALSE)>>, "RawMempoolVerbose">>}

GetRawTransactionVerbosity ==
    {<<<<GetRawTransactionVerbose(FALSE)>>, "String">>,
     <<<<GetRawTransactionVerbose(TRUE)>>, "serde_json::Value">>}

\* The Response types the impls give the parameter types ws; the witnesses
\* are sent as the call's parameters.
Resolve(impls, ws) ==
    LET found == {i[2] : i \in {j \in impls : j[1] = ws}}
    IN  IF found = {} THEN Err("the trait bound is not satisfied")
        ELSE Ok([response |-> found,
                 params |-> [k \in 1..Len(ws) |-> Witness_serialize(ws[k])]])

get_block(verbosity) == Resolve(GetBlockVerbosity, <<verbosity>>)

get_raw_mempool(verbose, mempool_sequence) ==
    Resolve(GetRawMempoolResponse, <<verbose, mempool_sequence>>)

get_raw_transaction(verbose) == Resolve(GetRawTransactionVerbosity, <<verbose>>)

(***************************************************************************)
(* AmountBtc (client.rs:896-897): bitcoin::amount::serde::as_btc.  An       *)
(* Amount (u64, in satoshi) is the record [whole, frac] of its quotient and *)
(* remainder by 100,000,000.  An f64 is named by the decimal text Rust's    *)
(* Display prints for it, the shortest that parses back to it: this names   *)
(* the f64 nearest to a decimal of at most 15 significant digits by that    *)
(* decimal, so the amounts drawn stay below 10,000,000 BTC.                 *)
(***************************************************************************)
JFloat(s) == [t |-> "float", n |-> 0, b |-> FALSE, s |-> s]

Amount(whole, frac) == [whole |-> whole, frac |-> frac]

\* Decimal places of the BTC denomination.
BtcPrecision == 8

DecDigits == <<"0", "1", "2", "3", "4", "5", "6", "7", "8", "9">>

\* char::to_digit(10), -1 for None.
DigitVal(c) ==
    IF \E i \in 1..10 : DecDigits[i] = c
    THEN (CHOOSE i \in 1..10 : DecDigits[i] = c) - 1
    ELSE -1

RECURSIVE NatToStr(_)
NatToStr(n) ==
    IF n < 10 THEN <<DecDigits[n + 1]>>
    ELSE NatToStr(n \div 10) \o <<DecDigits[(n % 10) + 1]>>

RECURSIVE StripTrailingZeros(_)
StripTrailingZeros(s) ==
    IF s # <<>> /\ s[Len(s)] = "0" THEN StripTrailingZeros(SubSeq(s, 1, Len(s) - 1))
    ELSE s

\* The fraction's digits, zero-padded on the left to the denomination's places.
FracDigits(frac) ==
    [i \in 1..BtcPrecision |-> DecDigits[((frac \div (10 ^ (BtcPrecision - i))) % 10) + 1]]

\* Amount::to_string_in(Denomination::Bitcoin), the fraction not zero-padded.
to_string_in_Unpadded(a) ==
    IF a.frac = 0 THEN NatToStr(a.whole)
    ELSE NatToStr(a.whole) \o <<".">> \o StripTrailingZeros(NatToStr(a.frac))

\* Amount::to_string_in(Denomination::Bitcoin): the whole part and, when the
\* fraction is not zero, a point and the fraction without trailing zeros.
to_string_in(a) ==
    IF a.frac = 0 THEN NatToStr(a.whole)
    ELSE NatToStr(a.whole) \o <<".">> \o StripTrailingZeros(FracDigits(a.frac))

\* str::parse::<f64> of a decimal text: the f64 nearest to it.
f64_from_str(s) ==
    IF \E i \in 1..Len(s) : s[i] = "."
    THEN LET z == StripTrailingZeros(s)
         IN  JFloat(IF z[Len(z)] = "." THEN SubSeq(z, 1, Len(z) - 1) ELSE z)
    ELSE JFloat(s)

\* f64::deserialize, then f64::to_string: a JSON number of either kind, as f64.
f64_to_string(x) ==
    IF x.t = "float" THEN x.s
    ELSE IF x.n < 0 THEN <<"-">> \o NatToStr(0 - x.n)
    ELSE NatToStr(x.n)

\* The digit loop of parse_signed_to_satoshi with at most 8 decimals.
\* st.decimals is -1 before the point.
RECURSIVE ParseDigits(_, _)
ParseDigits(s, st) ==
    IF s = <<>> THEN Ok(st)
    ELSE LET c == Head(s)
             d == DigitVal(c)
         IN  IF d >= 0
             THEN IF st.decimals = -1
                  THEN ParseDigits(Tail(s), [st EXCEPT !.whole = @ * 10 + d])
                  ELSE IF st.decimals < BtcPrecision
                  THEN ParseDigits(Tail(s), [st EXCEPT !.frac = @ * 10 + d,
                                                       !.decimals = @ + 1])
                  ELSE Err("TooPrecise")
             ELSE IF c = "." /\ st.decimals = -1
             THEN ParseDigits(Tail(s), [st EXCEPT !.decimals = 0])
             ELSE Err("InvalidCharacter")

\* Amount::from_str_in(s, Denomination::Bitcoin).
from_str_in(s) ==
    IF s = <<>> THEN Err("MissingDigits")
    ELSE IF s[1] = "-" THEN Err("Negative")
    ELSE LET r == ParseDigits(s, [whole |-> 0, frac |-> 0, decimals |-> -1])
         IN  IF ~r.ok THEN r
             ELSE LET dec == IF r.v.decimals = -1 THEN 0 ELSE r.v.decimals
                  IN  Ok(Amount(r.v.whole, r.v.frac * (10 ^ (BtcPrecision - dec))))

\* Amount::from_btc: from_str_in of the f64's Display text.
from_btc(text) == from_str_in(text)

\* as_btc::serialize: f64::serialize(to_float_in(Bitcoin)).
AmountBtc_serialize(a) == f64_from_str(to_string_in(a))

\* as_btc::deserialize: Amount::from_btc(f64::deserialize(d)?).
AmountBtc_deserialize(x) ==
    IF x.t \notin {"number", "float"} THEN Err("invalid type")
    ELSE from_btc(f64_to_string(x))

(***************************************************************************)
(* BlockCommitment and BlockCommitments (client.rs:224-302).               *)
(***************************************************************************)
TypeBmmHStar == <<"B", "M", "M", " ", "h", "*">>
TypeScdbUpdateBytes ==
    <<"S", "C", "D", "B", " ", "u", "p", "d", "a", "t", "e", " ", "b", "y",
      "t", "e", "s">>
TypeSidechainActivationAck ==
    <<"S", "i", "d", "e", "c", "h", "a", "i", "n", " ", "a", "c", "t", "i",
      "v", "a", "t", "i", "o", "n", " ", "a", "c", "k">>
TypeSidechainProposal ==
    <<"S", "i", "d", "e", "c", "h", "a", "i", "n", " ", "p", "r", "o", "p",
      "o", "s", "a", "l">>
TypeWithdrawalBundleHash ==
    <<"W", "i", "t", "h", "d", "r", "a", "w", "a", "l", " ", "b", "u", "n",
      "d", "l", "e", " ", "h", "a", "s", "h">>
TypeWitnessCommitment ==
    <<"W", "i", "t", "n", "e", "s", "s", " ", "c", "o", "m", "m", "i", "t",
      "m", "e", "n", "t">>

\* A struct field: missing_field when the key is absent, else its decoder.
Present(obj, key) == key \in DOMAIN obj

\* u8 (SidechainId is transparent over u8).
u8_deserialize(x) ==
    IF x.t # "number" THEN Err("invalid type")
    ELSE IF x.n < 0 \/ x.n > 255 THEN Err("invalid value")
    ELSE Ok(x.n)

\* u32, for the numbers the model draws.
u32_deserialize(x) ==
    IF x.t # "number" THEN Err("invalid type")
    ELSE IF x.n < 0 THEN Err("invalid value")
    ELSE Ok(x.n)

String_deserialize(x) ==
    IF x.t # "string" THEN Err("invalid type") ELSE Ok(x.s)

\* The first error among the field results rs, else the value v.
AllOk(rs, v) ==
    IF \E i \in 1..Len(rs) : ~rs[i].ok
    THEN rs[CHOOSE i \in 1..Len(rs) : ~rs[i].ok /\ \A j \in 1..(i - 1) : rs[j].ok]
    ELSE Ok(v)

\* Variant BmmHStar, a missing prevbytes read as zeroes.
BmmHStar_DefaultPrevBytes(obj) ==
    IF ~Present(obj, "h") \/ ~Present(obj, "nsidechain")
    THEN Err("missing field")
    ELSE LET c == deserialize_reverse_hex(obj["h"], CommitmentWidth)
             s == u8_deserialize(obj["nsidechain"])
             p == IF Present(obj, "prevbytes")
                  THEN hex_serde_deserialize_array(obj["prevbytes"], PrevBytesWidth)
                  ELSE Ok(<<0, 0, 0, 0>>)
         IN  AllOk(<<c, s, p>>,
                   [variant |-> "BmmHStar", commitment |-> c.v,
                    sidechain_id |-> s.v, prev_bytes |-> p.v])

\* Variant BmmHStar, prevbytes reversed as h is.
BmmHStar_ReversedPrevBytes(obj) ==
    IF ~Present(obj, "h") \/ ~Present(obj, "nsidechain") \/ ~Present(obj, "prevbytes")
    THEN Err("missing field")
    ELSE LET c == deserialize_reverse_hex(obj["h"], CommitmentWidth)
             s == u8_deserialize(obj["nsidechain"])
             p == deserialize_reverse_hex(obj["prevbytes"], PrevBytesWidth)
         IN  AllOk(<<c, s, p>>,
                   [variant |-> "BmmHStar", commitment |-> c.v,
                    sidechain_id |-> s.v, prev_bytes |-> p.v])

\* Variant BmmHStar { h, nsidechain, prevbytes }.
BmmHStar(obj) ==
    IF ~Present(obj, "h") \/ ~Present(obj, "nsidechain") \/ ~Present(obj, "prevbytes")
    THEN Err("missing field")
    ELSE LET c == deserialize_reverse_hex(obj["h"], CommitmentWidth)
             s == u8_deserialize(obj["nsidechain"])
             p == hex_serde_deserialize_array(obj["prevbytes"], PrevBytesWidth)
         IN  AllOk(<<c, s, p>>,
                   [variant |-> "BmmHStar", commitment |-> c.v,
                    sidechain_id |-> s.v, prev_bytes |-> p.v])

\* Variant ScdbUpdateBytes { script }.
ScdbUpdateBytes(obj) ==
    IF ~Present(obj, "script") THEN Err("missing field")
    ELSE LET s == String_deserialize(obj["script"])
         IN  AllOk(<<s>>, [variant |-> "ScdbUpdateBytes", script |-> s.v])

\* Variant SidechainActivationAck { hash }.
SidechainActivationAck(obj) ==
    IF ~Present(obj, "hash") THEN Err("missing field")
    ELSE LET c == deserialize_reverse_hex(obj["hash"], CommitmentWidth)
         IN  AllOk(<<c>>, [variant |-> "SidechainActivationAck", commitment |-> c.v])

\* Variant SidechainProposal, a unit variant: every other entry is ignored.
SidechainProposal(obj) == Ok([variant |-> "SidechainProposal"])

\* Variant WithdrawalBundleHash { hash, nsidechain }.
WithdrawalBundleHash(obj) ==
    IF ~Present(obj, "hash") \/ ~Present(obj, "nsidechain") THEN Err("missing field")
    ELSE LET c == deserialize_reverse_hex(obj["hash"], CommitmentWidth)
             s == u8_deserialize(obj["nsidechain"])
         IN  AllOk(<<c, s>>,
                   [variant |-> "WithdrawalBundleHash", commitment |-> c.v,
                    sidechain_id |-> s.v])

\* Variant WitnessCommitment { script }.
WitnessCommitment(obj) ==
    IF ~Present(obj, "script") THEN Err("missing field")
    ELSE LET s == String_deserialize(obj["script"])
         IN  AllOk(<<s>>, [variant |-> "WitnessCommitment", script |-> s.v])

\* <BlockCommitment as Deserialize>, internally tagged by "type": the tag
\* picks the variant, whose fields are then read from the other entries;
\* entries that are no field of the variant are ignored.
BlockCommitment_deserialize(obj) ==
    IF ~Present(obj, "type") THEN Err("missing field")
    ELSE IF obj["type"].t # "string" THEN Err("invalid type")
    ELSE LET tag == obj["type"].s
         IN  CASE tag = TypeBmmHStar -> BmmHStar(obj)
               [] tag = TypeScdbUpdateBytes -> ScdbUpdateBytes(obj)
               [] tag = TypeSidechainActivationAck -> SidechainActivationAck(obj)
               [] tag = TypeSidechainProposal -> SidechainProposal(obj)
               [] tag = TypeWithdrawalBundleHash -> WithdrawalBundleHash(obj)
               [] tag = TypeWitnessCommitment -> WitnessCommitment(obj)
               [] OTHER -> Err("unknown variant")

Without(obj, keys) == [k \in (DOMAIN obj) \ keys |-> obj[k]]

\* Repr { txout, #[serde(flatten)] commitment } and From<Repr> for
\* (u32, BlockCommitment).
Repr_deserialize(obj) ==
    IF ~Present(obj, "txout") THEN Err("missing field")
    ELSE LET t == u32_deserialize(obj["txout"])
             c == BlockCommitment_deserialize(Without(obj, {"txout"}))
         IN  AllOk(<<t, c>>, <<t.v, c.v>>)

\* <BlockCommitments as Deserialize>, the records that fail to decode left out.
RECURSIVE BlockCommitments_deserialize_Skip(_)
BlockCommitments_deserialize_Skip(list) ==
    IF list = <<>> THEN Ok(<<>>)
    ELSE LET r == Repr_deserialize(Head(list))
             rest == BlockCommitments_deserialize_Skip(Tail(list))
         IN  IF ~r.ok THEN rest ELSE Ok(<<r.v>> \o rest.v)

\* <BlockCommitments as Deserialize>, one pair kept for each txout.
RECURSIVE BlockCommitments_deserialize_Dedup(_)
BlockCommitments_deserialize_Dedup(list) ==
    IF list = <<>> THEN Ok(<<>>)
    ELSE LET r == Repr_deserialize(Head(list))
             rest == BlockCommitments_deserialize_Dedup(Tail(list))
         IN  IF ~r.ok THEN r
             ELSE IF ~rest.ok THEN rest
             ELSE IF \E i \in 1..Len(rest.v) : rest.v[i][1] = r.v[1] THEN rest
             ELSE Ok(<<r.v>> \o rest.v)

\* <BlockCommitments as Deserialize>: Vec<FromInto<Repr>>, each element in
\* turn, the first error ending the decode.
RECURSIVE BlockCommitments_deserialize(_)
BlockCommitments_deserialize(list) ==
    IF list = <<>> THEN Ok(<<>>)
    ELSE LET r == Repr_deserialize(Head(list))
         IN  IF ~r.ok THEN r
             ELSE LET rest == BlockCommitments_deserialize(Tail(list))
                  IN  IF ~rest.ok THEN rest ELSE Ok(<<r.v>> \o rest.v)

(***************************************************************************)
(* Header (client.rs:86-100).                                              *)
(***************************************************************************)
\* BlockHash and TxMerkleNode read from JSON: 64 hex digits of either case,
\* displayed in reverse of the stored bytes.
BlockHash_deserialize(x) ==
    IF x.t # "string" THEN Err("invalid type")
    ELSE LET b == ArrayFromHex(x.s, 32)
         IN  IF ~b.ok THEN b ELSE Ok(Reverse(b.v))

\* BlockHash::all_zeros.
BlockHash_all_zeros == [i \in 1..32 |-> 0]

\* block::Version, transparent over i32, for the numbers the model draws.
i32_deserialize(x) ==
    IF x.t # "number" THEN Err("invalid type") ELSE Ok(x.n)

\* The fields of Header without a default, by their wire names.
HeaderRequired == {"hash", "height", "version", "merkleroot", "time", "bits", "nonce"}

\* The decoder of the Header field with wire name k.
HeaderField(k, x) ==
    CASE k \in {"hash", "previousblockhash", "merkleroot"} -> BlockHash_deserialize(x)
      [] k \in {"height", "time", "nonce"} -> u32_deserialize(x)
      [] k = "version" -> i32_deserialize(x)
      [] k = "bits" -> CompactTargetRepr_deserialize(x)

HeaderKeys == HeaderRequired \cup {"previousblockhash"}

\* The Header whose fields are the decoded entries f, prev its prev_blockhash.
HeaderOf(f, prev) ==
    [hash |-> f["hash"].v, height |-> f["height"].v, version |-> f["version"].v,
     prev_blockhash |-> prev, merkle_root |-> f["merkleroot"].v,
     time |-> f["time"].v, bits |-> f["bits"].v, nonce |-> f["nonce"].v]

\* <Header as Deserialize>, a malformed previousblockhash read as all zeros.
Header_deserialize_DefaultOnError(obj) ==
    LET f == [k \in HeaderRequired \cap DOMAIN obj |-> HeaderField(k, obj[k])]
        p == IF Present(obj, "previousblockhash")
             THEN BlockHash_deserialize(obj["previousblockhash"])
             ELSE Err("missing field")
    IN  IF \E k \in DOMAIN f : ~f[k].ok
        THEN f[CHOOSE k \in DOMAIN f : ~f[k].ok]
        ELSE IF DOMAIN f # HeaderRequired THEN Err("missing field")
        ELSE Ok(HeaderOf(f, IF p.ok THEN p.v ELSE BlockHash_all_zeros))

\* <Header as Deserialize>: each entry that names a field is decoded, the
\* others are ignored; a field without an entry is missing_field, except
\* previousblockhash, which is then BlockHash::all_zeros().
Header_deserialize(obj) ==
    LET f == [k \in HeaderKeys \cap DOMAIN obj |-> HeaderField(k, obj[k])]
    IN  IF \E k \in DOMAIN f : ~f[k].ok
        THEN f[CHOOSE k \in DOMAIN f : ~f[k].ok]
        ELSE IF ~(HeaderRequired \subseteq DOMAIN f) THEN Err("missing field")
        ELSE Ok(HeaderOf(f, IF Present(obj, "previousblockhash")
                            THEN f["previousblockhash"].v
                            ELSE BlockHash_all_zeros))


(***************************************************************************)
(* SidechainInfo and SidechainActivationStatus (client.rs:464-495).        *)
(***************************************************************************)
Sha256Width == 32
Ripemd160Width == 20

\* Sha256Hash and Ripemd160Hash read from JSON: the hex of the N bytes, in
\* order.
Hash_deserialize(x, N) ==
    IF x.t # "string" THEN Err("invalid type") ELSE ArrayFromHex(x.s, N)

Hash_serialize(b) == JStr(hex_encode(b))

Sha256Hash_deserialize(x) == Hash_deserialize(x, Sha256Width)

Ripemd160Hash_deserialize(x) == Hash_deserialize(x, Ripemd160Width)

\* The entry of obj for a struct field: names are the keys the field
\* answers to (its name or rename, and its aliases).
StructField(obj, names) ==
    LET keys == names \cap DOMAIN obj
    IN  IF keys = {} THEN Err("missing field")
        ELSE IF Cardinality(keys) > 1 THEN Err("duplicate field")
        ELSE Ok(obj[CHOOSE k \in keys : TRUE])

\* The keys each field of SidechainInfo answers to, without the aliases in
\* capitals.
SidechainInfoNames_NoCapitals(f) ==
    CASE f = "name" -> {"title"}
      [] f = "version" -> {"version", "nversion"}
      [] f = "description" -> {"description"}
      [] f = "hash_id_1" -> {"hash_id_1", "hashid1"}
      [] f = "hash_id_2" -> {"hash_id_2", "hashid2"}

\* The keys each field of SidechainInfo answers to.
SidechainInfoNames(f) ==
    CASE f = "name" -> {"title"}
      [] f = "version" -> {"version", "nversion"}
      [] f = "description" -> {"description"}
      [] f = "hash_id_1" -> {"hash_id_1", "hashid1", "hashID1"}
      [] f = "hash_id_2" -> {"hash_id_2", "hashid2", "hashID2"}

\* <SidechainInfo as Deserialize>.
SidechainInfo_deserialize(obj) ==
    LET en == StructField(obj, SidechainInfoNames("name"))
        ev == StructField(obj, SidechainInfoNames("version"))
        ed == StructField(obj, SidechainInfoNames("description"))
        e1 == StructField(obj, SidechainInfoNames("hash_id_1"))
        e2 == StructField(obj, SidechainInfoNames("hash_id_2"))
        n == IF en.ok THEN String_deserialize(en.v) ELSE en
        v == IF ev.ok THEN i32_deserialize(ev.v) ELSE ev
        d == IF ed.ok THEN String_deserialize(ed.v) ELSE ed
        h1 == IF e1.ok THEN Sha256Hash_deserialize(e1.v) ELSE e1
        h2 == IF e2.ok THEN Ripemd160Hash_deserialize(e2.v) ELSE e2
    IN  AllOk(<<n, v, d, h1, h2>>,
              [name |-> n.v, version |-> v.v, description |-> d.v,
               hash_id_1 |-> h1.v, hash_id_2 |-> h2.v])

\* <SidechainInfo as Serialize>: each field under its name, name under its
\* rename.
SidechainInfo_serialize(v) ==
    ("title" :> JStr(v.name)) @@ ("version" :> JNum(v.version))
    @@ ("description" :> JStr(v.description))
    @@ ("hash_id_1" :> Hash_serialize(v.hash_id_1))
    @@ ("hash_id_2" :> Hash_serialize(v.hash_id_2))

\* The keys each field of SidechainActivationStatus answers to.
SidechainActivationStatusNames(f) ==
    CASE f = "name" -> {"title"}
      [] f = "description" -> {"description"}
      [] f = "age" -> {"age", "nage"}
      [] f = "fail" -> {"fail", "nfail"}

\* <SidechainActivationStatus as Deserialize>.
SidechainActivationStatus_deserialize(obj) ==
    LET en == StructField(obj, SidechainActivationStatusNames("name"))
        ed == StructField(obj, SidechainActivationStatusNames("description"))
        ea == StructField(obj, SidechainActivationStatusNames("age"))
        ef == StructField(obj, SidechainActivationStatusNames("fail"))
        n == IF en.ok THEN String_deserialize(en.v) ELSE en
        d == IF ed.ok THEN String_deserialize(ed.v) ELSE ed
        a == IF ea.ok THEN u32_deserialize(ea.v) ELSE ea
        f == IF ef.ok THEN u32_deserialize(ef.v) ELSE ef
    IN  AllOk(<<n, d, a, f>>,
              [name |-> n.v, description |-> d.v, age |-> a.v, fail |-> f.v])

\* <SidechainActivationStatus as Serialize>.
SidechainActivationStatus_serialize(v) ==
    ("title" :> JStr(v.name)) @@ ("description" :> JStr(v.description))
    @@ ("age" :> JNum(v.age)) @@ ("fail" :> JNum(v.fail))


(***************************************************************************)
(* BlockTemplateRequest (client.rs:304-319).  A JSON array of strings is   *)
(* the record JArr(items), its strings named whole ("segwit").             *)
(***************************************************************************)
JArr(items) == [t |-> "array", n |-> 0, b |-> FALSE, s |-> items]

\* Vec<String>.
VecString_deserialize(x) ==
    IF x.t # "array" THEN Err("invalid type") ELSE Ok(x.s)

\* HashSet<String>.
HashSetString_deserialize(x) ==
    IF x.t # "array" THEN Err("invalid type")
    ELSE Ok({x.s[i] : i \in 1..Len(x.s)})

\* <BlockTemplateRequest as Default>::default.
BlockTemplateRequest_default == [rules |-> <<"segwit">>, capabilities |-> {}]

\* <BlockTemplateRequest as Deserialize>: #[serde(default)] on a field is
\* the Default of the field's type, Vec::default() and HashSet::default().
BlockTemplateRequest_deserialize(obj) ==
    LET r == IF Present(obj, "rules") THEN VecString_deserialize(obj["rules"])
             ELSE Ok(<<>>)
        c == IF Present(obj, "capabilities")
             THEN HashSetString_deserialize(obj["capabilities"])
             ELSE Ok({})
    IN  AllOk(<<r, c>>, [rules |-> r.v, capabilities |-> c.v])


(***************************************************************************)
(* LinkedHashMapRepr and BlockTemplate::coinbase_aux (client.rs:334-367,   *)
(* 390-392).  A JSON object read entry by entry is the sequence of its     *)
(* <<key, value>> entries, a LinkedHashMap the sequence of its <<key,      *)
(* value>> entries from front to back.                                     *)
(***************************************************************************)
\* serde_with::hex::Hex as DeserializeAs<Vec<u8>>: hex::decode of a string.
serde_with_Hex_vec(x) ==
    IF x.t # "string" THEN Err("invalid type") ELSE VecFromHex(x.s)

\* serde_with::hex::Hex as SerializeAs<Vec<u8>>: lowercase.
serde_with_Hex_serialize(bytes) == JStr(hex_encode(bytes))

\* serde_with::Map<Same, Hex> as DeserializeAs<Vec<(String, Vec<u8>)>>: every
\* entry of the object in turn, the first error ending the decode.
RECURSIVE Map_deserialize(_)
Map_deserialize(entries) ==
    IF entries = <<>> THEN Ok(<<>>)
    ELSE LET v == serde_with_Hex_vec(Head(entries)[2])
         IN  IF ~v.ok THEN v
             ELSE LET rest == Map_deserialize(Tail(entries))
                  IN  IF ~rest.ok THEN rest
                      ELSE Ok(<<<<Head(entries)[1], v.v>>>> \o rest.v)

\* LinkedHashMap::insert that adds an entry whether or not the key is there.
LinkedHashMap_insert_KeepBoth(m, k, v) == Append(m, <<k, v>>)

\* hashlink's LinkedHashMap::insert: a new key is added at the back; a key
\* that is there has its value replaced and its entry moved to the back.
LinkedHashMap_insert(m, k, v) ==
    Append(SelectSeq(m, LAMBDA e : e[1] # k), <<k, v>>)

\* LinkedHashMap::from_iter: insert for each pair, from an empty map.
RECURSIVE LinkedHashMap_extend(_, _)
LinkedHashMap_extend(m, pairs) ==
    IF pairs = <<>> THEN m
    ELSE LinkedHashMap_extend(LinkedHashMap_insert(m, Head(pairs)[1], Head(pairs)[2]),
                              Tail(pairs))

LinkedHashMap_from_iter(pairs) == LinkedHashMap_extend(<<>>, pairs)

\* <LinkedHashMapRepr<_, Hex> as DeserializeAs<LinkedHashMap<String, Vec<u8>>>>.
LinkedHashMapRepr_deserialize_as(entries) ==
    LET pairs == Map_deserialize(entries)
    IN  IF ~pairs.ok THEN pairs ELSE Ok(LinkedHashMap_from_iter(pairs.v))

\* <LinkedHashMapRepr<_, Hex> as SerializeAs<LinkedHashMap<String, Vec<u8>>>>:
\* the entries from front to back, as the entries of an object.
LinkedHashMapRepr_serialize_as(m) ==
    [i \in 1..Len(m) |-> <<m[i][1], serde_with_Hex_serialize(m[i][2])>>]


(***************************************************************************)
(* Sample inputs.                                                          *)
(***************************************************************************)
RampStarts == {0, 29, 250}

Ramp(start, step, n) == [i \in 1..n |-> (start + (i - 1) * step) % 256]

SampleArrays(N) == {Ramp(st, sp, N) : st \in RampStarts, sp \in 0..MaxStep}

Corruptions == {"none", "odd", "nonhex"}

\* s as it is, without its last character, or with its middle character
\* replaced by one that is no hex digit.
Corrupt(s, c) ==
    CASE c = "none" -> s
      [] c = "odd" -> IF s = <<>> THEN <<"0">> ELSE SubSeq(s, 1, Len(s) - 1)
      [] c = "nonhex" ->
            IF s = <<>> THEN <<"g", "0">>
            ELSE [s EXCEPT ![(Len(s) + 1) \div 2] = "g"]

\* Hex strings of about N bytes, of either case, some malformed.
HexInputs(N) ==
    {Corrupt(ToHex(Ramp(st, sp, n), tbl), c) :
        st \in RampStarts, sp \in 0..MaxStep,
        n \in {k \in (N - MaxExtra)..(N + MaxExtra) : k >= 0},
        tbl \in {HexLower, HexUpper}, c \in Corruptions}

\* The JSON values offered to a decoder of N bytes of hex.
HexWireValues(N) == {JStr(s) : s \in HexInputs(N)} \cup {JNum(0), JNull}

\* Largest JSON integer offered to a witness or an amount decoder.
MaxWire == 5
\* Longest list of commitment records.
MaxRecords == 2

\* --- compact targets ---
CompactSamples ==
    {<<29, 0, 255, 255>>, <<32, 127, 255, 255>>, <<255, 255, 255, 255>>,
     <<128, 0, 0, 1>>, <<0, 0, 0, 0>>}

Prefixes == {<<"0", "x">>, <<"0", "X">>, <<"+">>, <<"-">>}

CompactTargetInputs ==
    HexInputs(4)
    \cup {ToHex(b, tbl) : b \in CompactSamples, tbl \in {HexLower, HexUpper}}
    \cup {pre \o ToHex(b, HexLower) : pre \in Prefixes, b \in CompactSamples}
    \cup {<<"+">> \o Tail(ToHex(b, HexLower)) : b \in CompactSamples}
    \cup {<<>>, <<"+">>}

CompactTargetWireValues == {JStr(s) : s \in CompactTargetInputs} \cup {JNum(0), JNull}

U32Samples ==
    {U32(b[1] * 256 + b[2], b[3] * 256 + b[4]) : b \in CompactSamples \cup SampleArrays(4)}

\* --- witnesses ---
WitnessWireValues ==
    {JNum(n) : n \in 0..MaxWire} \cup {JBool(b) : b \in BOOLEAN}
    \cup {JStr(<<"0">>), JStr(<<"t", "r", "u", "e">>), JNull}

\* The types a caller may try as a verbosity parameter.
CallerTypes == WitnessTypes \cup {U8Witness(n) : n \in 0..MaxWire}

\* --- amounts ---
AmountSamples ==
    {Amount(w, f) : w \in {0, 1, 21, 9999999} \cup 2..MaxWire,
                    f \in {0, 1, 10, 50000000, 12345678, 99999999}}

AmountTexts ==
    {<<"1", ".", "5", "0", "0", "0", "0", "0", "0", "0">>,
     <<"1", ".", "5">>, <<"0", ".", "0", "0", "0", "0", "0", "0", "0", "0", "1">>,
     <<"-", "1", ".", "5">>, <<"-", "0">>, <<"1", "5", "0", "0", "0", "0", "0", "0", "0">>}

AmountWireValues ==
    {JStr(s) : s \in AmountTexts} \cup {f64_from_str(s) : s \in AmountTexts}
    \cup {AmountBtc_serialize(a) : a \in AmountSamples}
    \cup {JNum(n) : n \in (-1)..MaxWire} \cup {JBool(TRUE), JNull}

\* --- commitment records ---
TxOuts == {0, 2}

SampleHash == JStr(ToHex(Ramp(29, 1, CommitmentWidth), HexLower))
SamplePrevBytes == JStr(ToHex(Ramp(250, 2, PrevBytesWidth), HexUpper))
SampleScript == JStr(<<"6", "a", "2", "4">>)

Rec_BmmHStar(t) ==
    ("txout" :> JNum(t)) @@ ("type" :> JStr(TypeBmmHStar)) @@ ("h" :> SampleHash)
    @@ ("nsidechain" :> JNum(t + 1)) @@ ("prevbytes" :> SamplePrevBytes)
Rec_ScdbUpdateBytes(t) ==
    ("txout" :> JNum(t)) @@ ("type" :> JStr(TypeScdbUpdateBytes))
    @@ ("script" :> SampleScript)
Rec_SidechainActivationAck(t) ==
    ("txout" :> JNum(t)) @@ ("type" :> JStr(TypeSidechainActivationAck))
    @@ ("hash" :> SampleHash)
Rec_SidechainProposal(t) ==
    ("txout" :> JNum(t)) @@ ("type" :> JStr(TypeSidechainProposal))
Rec_WithdrawalBundleHash(t) ==
    ("txout" :> JNum(t)) @@ ("type" :> JStr(TypeWithdrawalBundleHash))
    @@ ("hash" :> SampleHash) @@ ("nsidechain" :> JNum(255))
Rec_WitnessCommitment(t) ==
    ("txout" :> JNum(t)) @@ ("type" :> JStr(TypeWitnessCommitment))
    @@ ("script" :> SampleScript)

WellFormedRecords ==
    UNION {{Rec_BmmHStar(t), Rec_ScdbUpdateBytes(t), Rec_SidechainActivationAck(t),
            Rec_SidechainProposal(t), Rec_WithdrawalBundleHash(t),
            Rec_WitnessCommitment(t)} : t \in TxOuts}

\* Records of a discriminant the enum does not name, without a discriminant,
\* without a field of the variant, with a field of another variant, with a
\* malformed field, and without txout.
OtherRecords ==
    {("type" :> JStr(<<"N", "e", "w">>)) @@ Rec_SidechainProposal(0),
     ("type" :> JStr(<<"b", "m", "m", " ", "h", "*">>)) @@ Rec_BmmHStar(2),
     Without(Rec_WitnessCommitment(0), {"type"}),
     Without(Rec_BmmHStar(0), {"prevbytes"}),
     Without(Rec_SidechainActivationAck(0), {"hash"}),
     Rec_SidechainProposal(2) @@ ("script" :> SampleScript),
     Rec_WitnessCommitment(0) @@ ("hash" :> SampleHash),
     ("type" :> JStr(TypeSidechainActivationAck)) @@ Rec_BmmHStar(0) @@ ("hash" :> SampleHash),
     ("hash" :> JStr(ToHex(Ramp(29, 1, CommitmentWidth - 1), HexLower)))
        @@ Rec_SidechainActivationAck(0),
     ("nsidechain" :> JNum(256)) @@ Rec_WithdrawalBundleHash(0),
     Without(Rec_ScdbUpdateBytes(0), {"txout"})}

RecordPool == WellFormedRecords \cup OtherRecords

RecordLists == UNION {[1..k -> RecordPool] : k \in 0..MaxRecords}

\* reversed_hex_encode: the hex of the bytes in reverse order.
reversed_hex_encode(b) == JStr(hex_encode(Reverse(b)))

\* --- headers ---
SampleHeader ==
    ("hash" :> SampleHash) @@ ("height" :> JNum(1)) @@ ("version" :> JNum(2))
    @@ ("previousblockhash" :> JStr(ToHex(Ramp(250, 2, 32), HexUpper)))
    @@ ("merkleroot" :> JStr(ToHex(Ramp(0, 1, 32), HexLower)))
    @@ ("time" :> JNum(3)) @@ ("bits" :> JStr(<<"1", "d", "0", "0", "f", "f", "f", "f">>))
    @@ ("nonce" :> JNum(4))

\* Other values for the field with wire name k, most of them malformed.
HeaderFieldValues(k) ==
    CASE k \in {"hash", "previousblockhash", "merkleroot"} ->
            {JNull, JNum(0), JStr(<<>>), JStr(ToHex(Ramp(0, 0, 32), HexLower)),
             JStr(ToHex(Ramp(29, 1, 31), HexLower)),
             JStr(Corrupt(ToHex(Ramp(29, 1, 32), HexLower), "nonhex"))}
      [] k \in {"height", "time", "nonce"} -> {JNull, JNum(-1), JStr(<<"1">>), JNum(0)}
      [] k = "version" -> {JNull, JStr(<<"2">>), JNum(-1)}
      [] k = "bits" -> {JNull, JNum(0), JStr(<<"0", "x", "1", "d">>), JStr(<<"1", "d">>)}

\* The sample header, with one entry replaced, with one entry left out, or
\* both, and with an entry that names no field.
HeaderObjects ==
    LET replaced == {SampleHeader}
                    \cup UNION {{(k :> x) @@ SampleHeader : x \in HeaderFieldValues(k)} :
                                    k \in HeaderKeys}
        dropped == replaced \cup {Without(o, {k}) : o \in replaced, k \in HeaderKeys}
    IN  dropped \cup {o @@ ("confirmations" :> JNum(1)) : o \in dropped}

\* --- sidechain proposals and activation statuses ---
SampleTitle == JStr(<<"T", "e", "s", "t">>)
SampleDescription == JStr(<<"a", " ", "b">>)

\* A SidechainInfo object that spells version as vk, hash_id_1 as k1 and
\* hash_id_2 as k2.
InfoObject(vk, n, k1, k2, tbl) ==
    ("title" :> SampleTitle) @@ (vk :> JNum(n)) @@ ("description" :> SampleDescription)
    @@ (k1 :> JStr(ToHex(Ramp(29, 1, Sha256Width), tbl)))
    @@ (k2 :> JStr(ToHex(Ramp(250, 2, Ripemd160Width), tbl)))

SpelledInfoObjects ==
    {InfoObject(vk, n, k1, k2, tbl) :
        vk \in {"version", "nversion"}, n \in {-1, 0, MaxWire},
        k1 \in {"hash_id_1", "hashid1", "hashID1"},
        k2 \in {"hash_id_2", "hashid2", "hashID2"}, tbl \in {HexLower, HexUpper}}

\* Objects with a field under two spellings, under a key that is no
\* spelling of it, with a malformed value, and without a field.
OtherInfoObjects ==
    LET o == InfoObject("nversion", 1, "hashID1", "hashid2", HexLower)
    IN  {o @@ ("version" :> JNum(1)), o @@ ("hash_id_1" :> o["hashID1"]),
         o @@ ("hashID2" :> o["hashid2"]),
         Without(o, {"title"}) @@ ("name" :> SampleTitle),
         Without(o, {"nversion"}) @@ ("nVersion" :> JNum(1)),
         Without(o, {"hashID1"}) @@ ("hashId1" :> o["hashID1"]),
         Without(o, {"hashid2"}) @@ ("HASHID2" :> o["hashid2"]),
         ("hashID1" :> o["hashid2"]) @@ o, ("nversion" :> JStr(<<"1">>)) @@ o,
         Without(o, {"nversion"}), Without(o, {"hashID1"}), Without(o, {"description"}),
         o @@ ("nSidechain" :> JNum(1))}

SidechainInfoObjects == SpelledInfoObjects \cup OtherInfoObjects

SidechainInfoValues ==
    {SidechainInfo_deserialize(o).v :
        o \in {x \in SidechainInfoObjects : SidechainInfo_deserialize(x).ok}}

StatusObject(ak, a, fk, f) ==
    ("title" :> SampleTitle) @@ ("description" :> SampleDescription)
    @@ (ak :> JNum(a)) @@ (fk :> JNum(f))

SpelledStatusObjects ==
    {StatusObject(ak, a, fk, f) :
        ak \in {"age", "nage"}, a \in 0..MaxWire, fk \in {"fail", "nfail"}, f \in {0, 3}}

OtherStatusObjects ==
    LET o == StatusObject("nage", 1, "nfail", 2)
    IN  {o @@ ("age" :> JNum(1)), o @@ ("fail" :> JNum(3)),
         Without(o, {"nage"}) @@ ("nAge" :> JNum(1)),
         Without(o, {"nfail"}) @@ ("nfails" :> JNum(2)),
         ("nage" :> JNum(-1)) @@ o, ("nfail" :> JNull) @@ o,
         Without(o, {"nage"}), Without(o, {"nfail"}),
         Without(o, {"title"}) @@ ("name" :> SampleTitle)}

SidechainActivationStatusObjects == SpelledStatusObjects \cup OtherStatusObjects

SidechainActivationStatusValues ==
    {SidechainActivationStatus_deserialize(o).v :
        o \in {x \in SidechainActivationStatusObjects :
                  SidechainActivationStatus_deserialize(x).ok}}


\* --- block template requests ---
StringArrays ==
    {JArr(<<>>), JArr(<<"segwit">>), JArr(<<"segwit", "signet">>),
     JArr(<<"proposal", "proposal">>), JNull}

BlockTemplateRequestObjects ==
    UNION {[ks -> StringArrays] : ks \in SUBSET {"rules", "capabilities", "mode"}}


\* --- coinbaseaux ---
\* Most entries of a coinbaseaux object.
MaxAuxEntries == 3

AuxKeys == {"flags", "a"}

AuxValues ==
    {JStr(<<>>), JStr(<<"0", "0">>), JStr(<<"0", "a", "F", "F">>),
     JStr(<<"a", "b", "c">>), JNull}

CoinbaseAuxObjects ==
    UNION {[1..n -> AuxKeys \X AuxValues] : n \in 0..MaxAuxEntries}

CoinbaseAuxValues ==
    {LinkedHashMapRepr_deserialize_as(o).v :
        o \in {x \in CoinbaseAuxObjects : LinkedHashMapRepr_deserialize_as(x).ok}}


(***************************************************************************)
(* The caller.                                                             *)
(***************************************************************************)
Init ==
    /\ pc = "idle"
    /\ op = "none"
    /\ arg = <<>>
    /\ res = <<>>

\* The call returns r.
Done(o, a, r) ==
    /\ pc' = "done"
    /\ op' = o
    /\ arg' = a
    /\ res' = r

\* One of the five fixed-size hex fields is decoded.
DecodeHexFieldCall ==
    /\ pc = "idle"
    /\ \E f \in HexFields : \E x \in HexWireValues(FieldWidth(f)) :
           Done("DecodeHexField", <<f, x>>, DecodeHexField(f, x))

\* A commitment is encoded in reversed hex and decoded again.
ReverseHexRoundTripCall ==
    /\ pc = "idle"
    /\ \E b \in SampleArrays(CommitmentWidth) :
           Done("ReverseHexRoundTrip", b,
                deserialize_reverse_hex(reversed_hex_encode(b), CommitmentWidth))

CompactTargetDeserializeCall ==
    /\ pc = "idle"
    /\ \E x \in CompactTargetWireValues :
           Done("CompactTargetRepr_deserialize", x, CompactTargetRepr_deserialize(x))

CompactTargetSerializeCall ==
    /\ pc = "idle"
    /\ \E v \in U32Samples :
           Done("CompactTargetRepr_serialize", v, CompactTargetRepr_serialize(v))

WitnessSerializeCall ==
    /\ pc = "idle"
    /\ \E w \in WitnessTypes : Done("Witness_serialize", w, Witness_serialize(w))

WitnessDeserializeCall ==
    /\ pc = "idle"
    /\ \E w \in WitnessTypes : \E x \in WitnessWireValues :
           Done("Witness_deserialize", <<w, x>>, Witness_deserialize(w, x))

GetBlockCall ==
    /\ pc = "idle"
    /\ \E w \in CallerTypes : Done("get_block", <<w>>, get_block(w))

GetRawMempoolCall ==
    /\ pc = "idle"
    /\ \E v \in CallerTypes : \E s \in CallerTypes :
           Done("get_raw_mempool", <<v, s>>, get_raw_mempool(v, s))

GetRawTransactionCall ==
    /\ pc = "idle"
    /\ \E w \in CallerTypes : Done("get_raw_transaction", <<w>>, get_raw_transaction(w))

AmountSerializeCall ==
    /\ pc = "idle"
    /\ \E a \in AmountSamples : Done("AmountBtc_serialize", a, AmountBtc_serialize(a))

AmountDeserializeCall ==
    /\ pc = "idle"
    /\ \E x \in AmountWireValues :
           Done("AmountBtc_deserialize", x, AmountBtc_deserialize(x))

BlockCommitmentsCall ==
    /\ pc = "idle"
    /\ \E list \in RecordLists :
           Done("BlockCommitments_deserialize", list, BlockCommitments_deserialize(list))

HeaderDeserializeCall ==
    /\ pc = "idle"
    /\ \E obj \in HeaderObjects : Done("Header_deserialize", obj, Header_deserialize(obj))


SidechainInfoDeserializeCall ==
    /\ pc = "idle"
    /\ \E obj \in SidechainInfoObjects :
           Done("SidechainInfo_deserialize", obj, SidechainInfo_deserialize(obj))

SidechainInfoSerializeCall ==
    /\ pc = "idle"
    /\ \E v \in SidechainInfoValues :
           Done("SidechainInfo_serialize", v, SidechainInfo_serialize(v))

SidechainActivationStatusDeserializeCall ==
    /\ pc = "idle"
    /\ \E obj \in SidechainActivationStatusObjects :
           Done("SidechainActivationStatus_deserialize", obj,
                SidechainActivationStatus_deserialize(obj))

SidechainActivationStatusSerializeCall ==
    /\ pc = "idle"
    /\ \E v \in SidechainActivationStatusValues :
           Done("SidechainActivationStatus_serialize", v,
                SidechainActivationStatus_serialize(v))


BlockTemplateRequestDefaultCall ==
    /\ pc = "idle"
    /\ Done("BlockTemplateRequest_default", <<>>, BlockTemplateRequest_default)

BlockTemplateRequestDeserializeCall ==
    /\ pc = "idle"
    /\ \E obj \in BlockTemplateRequestObjects :
           Done("BlockTemplateRequest_deserialize", obj,
                BlockTemplateRequest_deserialize(obj))


CoinbaseAuxDeserializeCall ==
    /\ pc = "idle"
    /\ \E obj \in CoinbaseAuxObjects :
           Done("LinkedHashMapRepr_deserialize_as", obj,
                LinkedHashMapRepr_deserialize_as(obj))

CoinbaseAuxSerializeCall ==
    /\ pc = "idle"
    /\ \E m \in CoinbaseAuxValues :
           Done("LinkedHashMapRepr_serialize_as", m, LinkedHashMapRepr_serialize_as(m))


\* The result is dropped: no entity outlives the call.
Return ==
    /\ pc = "done"
    /\ pc' = "idle"
    /\ op' = "none"
    /\ arg' = <<>>
    /\ res' = <<>>

Next ==
    \/ DecodeHexFieldCall
    \/ ReverseHexRoundTripCall
    \/ CompactTargetDeserializeCall
    \/ CompactTargetSerializeCall
    \/ WitnessSerializeCall
    \/ WitnessDeserializeCall
    \/ GetBlockCall
    \/ GetRawMempoolCall
    \/ GetRawTransactionCall
    \/ AmountSerializeCall
    \/ AmountDeserializeCall
    \/ BlockCommitmentsCall
    \/ HeaderDeserializeCall
    \/ SidechainInfoDeserializeCall
    \/ SidechainInfoSerializeCall
    \/ SidechainActivationStatusDeserializeCall
    \/ SidechainActivationStatusSerializeCall
    \/ BlockTemplateRequestDefaultCall
    \/ BlockTemplateRequestDeserializeCall
    \/ CoinbaseAuxDeserializeCall
    \/ CoinbaseAuxSerializeCall
    \/ Return

Spec == Init /\ [][Next]_vars

(***************************************************************************)
(* Properties.                                                             *)
(***************************************************************************)
HexDigitChars ==
    {"0", "1", "2", "3", "4", "5", "6", "7", "8", "9",
     "a", "b", "c", "d", "e", "f", "A", "B", "C", "D", "E", "F"}

LowerOf(c) ==
    CASE c = "A" -> "a" [] c = "B" -> "b" [] c = "C" -> "c"
      [] c = "D" -> "d" [] c = "E" -> "e" [] c = "F" -> "f" [] OTHER -> c

\* Byte k (from 1) of the hex string s.
WireByte(s, k) == HexVal(s[2 * k - 1]) * 16 + HexVal(s[2 * k])

KnownTypes ==
    {TypeBmmHStar, TypeScdbUpdateBytes, TypeSidechainActivationAck,
     TypeSidechainProposal, TypeWithdrawalBundleHash, TypeWitnessCommitment}

HasStringType(r) == "type" \in DOMAIN r /\ r["type"].t = "string"

HasUnknownType(r) == HasStringType(r) /\ r["type"].s \notin KnownTypes

\* The name of the variant a discriminant selects.
VariantName(tag) ==
    CASE tag = TypeBmmHStar -> "BmmHStar"
      [] tag = TypeScdbUpdateBytes -> "ScdbUpdateBytes"
      [] tag = TypeSidechainActivationAck -> "SidechainActivationAck"
      [] tag = TypeSidechainProposal -> "SidechainProposal"
      [] tag = TypeWithdrawalBundleHash -> "WithdrawalBundleHash"
      [] tag = TypeWitnessCommitment -> "WitnessCommitment"
      [] OTHER -> "none"

\* The payload fields of the variant a discriminant selects.
VariantFieldSet(tag) ==
    CASE tag = TypeBmmHStar -> {"h", "nsidechain", "prevbytes"}
      [] tag = TypeScdbUpdateBytes -> {"script"}
      [] tag = TypeSidechainActivationAck -> {"hash"}
      [] tag = TypeSidechainProposal -> {}
      [] tag = TypeWithdrawalBundleHash -> {"hash", "nsidechain"}
      [] tag = TypeWitnessCommitment -> {"script"}
      [] OTHER -> {}

\* The keys a record of a known discriminant is made of, when it carries
\* exactly its variant's fields.
ExactKeys(r) == {"txout", "type"} \cup VariantFieldSet(r["type"].s)

DecodedCommitments == op = "BlockCommitments_deserialize"

\* C1: decoding a list of commitment records yields one (txout, commitment)
\* pair per record, in the order of the list, each with its record's txout
\* and the variant its record names; records of equal txout are all kept.
C1_OnePairPerRecordInOrder ==
    (DecodedCommitments /\ res.ok) =>
        /\ Len(res.v) = Len(arg)
        /\ \A i \in 1..Len(arg) :
              /\ res.v[i][1] = arg[i]["txout"].n
              /\ res.v[i][2].variant = VariantName(arg[i]["type"].s)

C1_Witness ==
    /\ DecodedCommitments
    /\ res.ok
    /\ Len(arg) = 2
    /\ arg[1]["txout"] = arg[2]["txout"]
    /\ arg[1]["type"] # arg[2]["type"]
    /\ Len(res.v) = 2

\* C2: a list holding a record whose type is none of the six discriminants
\* fails to decode; the error is unknown-variant when that record is the
\* first that fails and it has a txout.  No partial list is returned.
C2_UnknownTypeFailsTheList ==
    (DecodedCommitments /\ \E i \in 1..Len(arg) : HasUnknownType(arg[i])) =>
        /\ ~res.ok
        /\ LET i == CHOOSE k \in 1..Len(arg) :
                        /\ HasUnknownType(arg[k])
                        /\ \A j \in 1..(k - 1) : ~HasUnknownType(arg[j])
           IN  ( /\ \A j \in 1..(i - 1) : Repr_deserialize(arg[j]).ok
                 /\ "txout" \in DOMAIN arg[i]
                 /\ u32_deserialize(arg[i]["txout"]).ok )
               => res = Err("unknown variant")

C2_Witness ==
    /\ DecodedCommitments
    /\ Len(arg) = 2
    /\ Repr_deserialize(arg[1]).ok
    /\ HasUnknownType(arg[2])
    /\ res = Err("unknown variant")

\* C3: a witness serializes to the literal of its type, and a wire value
\* deserializes to the witness exactly when it equals that literal.
C3_WitnessIsItsLiteral ==
    /\ op = "Witness_serialize" => res = arg.lit
    /\ op = "Witness_deserialize" =>
          /\ res.ok <=> arg[2] = arg[1].lit
          /\ res.ok => res.v = arg[1]

C3_Witness ==
    /\ op = "Witness_deserialize"
    /\ arg = <<U8Witness(2), JNum(5)>>
    /\ ~res.ok

OnePointFiveString == JStr(<<"1", ".", "5", "0", "0", "0", "0", "0", "0", "0">>)

\* C4 as stated: the wire string "1.50000000" decodes to 150000000 satoshi,
\* and an amount encodes to a string of 8 decimals that decodes to it.
C4_AmountIsAnEightDecimalString ==
    /\ (op = "AmountBtc_deserialize" /\ arg = OnePointFiveString) =>
          res = Ok(Amount(1, 50000000))
    /\ op = "AmountBtc_serialize" =>
          /\ res.t = "string"
          /\ Len(res.s) > BtcPrecision
          /\ res.s[Len(res.s) - BtcPrecision] = "."
          /\ AmountBtc_deserialize(res) = Ok(arg)

\* C4, amended: an amount encodes to a JSON number of BTC (150000000 satoshi
\* to 1.5) that decodes to the amount; the number 1.5 decodes to 150000000
\* satoshi; a JSON string is a decode error.
C4_AmountIsANumberOfBtc ==
    /\ op = "AmountBtc_serialize" =>
          /\ res.t = "float"
          /\ AmountBtc_deserialize(res) = Ok(arg)
          /\ arg = Amount(1, 50000000) => res = JFloat(<<"1", ".", "5">>)
    /\ op = "AmountBtc_deserialize" =>
          /\ arg.t = "string" => ~res.ok
          /\ arg = JFloat(<<"1", ".", "5">>) => res = Ok(Amount(1, 50000000))

C4_Witness ==
    /\ op = "AmountBtc_deserialize"
    /\ arg = OnePointFiveString
    /\ res = Err("invalid type")

IsHexOfLen(x, n) ==
    /\ x.t = "string"
    /\ Len(x.s) = n
    /\ \A i \in 1..n : x.s[i] \in HexDigitChars

\* C5: an 8-character hex string decodes to a compact target that encodes
\* to the same string in lowercase, and every 32-bit value encodes to 8
\* characters that decode to it.
C5_CompactTargetRoundTrip ==
    /\ (op = "CompactTargetRepr_deserialize" /\ IsHexOfLen(arg, 8)) =>
          /\ res.ok
          /\ CompactTargetRepr_serialize(res.v) = JStr([i \in 1..8 |-> LowerOf(arg.s[i])])
    /\ op = "CompactTargetRepr_serialize" =>
          /\ IsHexOfLen(res, 8)
          /\ CompactTargetRepr_deserialize(res) = Ok(arg)

C5_Witness ==
    /\ op = "CompactTargetRepr_deserialize"
    /\ arg = JStr(<<"1", "D", "0", "0", "F", "F", "F", "F">>)
    /\ res = Ok(U32(7424, 65535))

\* C6: a 32-byte array encoded in reversed hex decodes to itself, and byte i
\* of a decoded commitment is byte 32 + 1 - i of the wire string.
C6_ReverseHexRoundTrip ==
    /\ op = "ReverseHexRoundTrip" => res = Ok(arg)
    /\ (op = "DecodeHexField" /\ arg[1] = "h" /\ res.ok) =>
          /\ Len(res.v) = CommitmentWidth
          /\ \A i \in 1..CommitmentWidth :
                res.v[i] = WireByte(arg[2].s, CommitmentWidth + 1 - i)

C6_Witness ==
    /\ op = "ReverseHexRoundTrip"
    /\ arg[1] # arg[CommitmentWidth]
    /\ res = Ok(arg)

\* C7: getblock is callable with the witnesses 0 and 1 only, 0 resolving to
\* the consensus-encoded block and 1 to Block; getrawtransaction with false
\* and true only, false resolving to String and true to a JSON value.
C7_VerbosityResolvesToOneType ==
    /\ op = "get_block" =>
          /\ res.ok <=> arg[1] \in {U8Witness(0), U8Witness(1)}
          /\ arg[1] = U8Witness(0) =>
                res.v.response = {"ConsensusEncoded<bitcoin::Block>"}
          /\ arg[1] = U8Witness(1) => res.v.response = {"Block"}
    /\ op = "get_raw_transaction" =>
          /\ res.ok <=> arg[1] \in {GetRawTransactionVerbose(b) : b \in BOOLEAN}
          /\ arg[1] = GetRawTransactionVerbose(FALSE) => res.v.response = {"String"}
          /\ arg[1] = GetRawTransactionVerbose(TRUE) =>
                res.v.response = {"serde_json::Value"}

C7_Witness ==
    /\ op = "get_block"
    /\ arg = <<U8Witness(2)>>
    /\ ~res.ok

MempoolResponses == {"Vec<Txid>", "RawMempoolWithSequence", "RawMempoolVerbose"}

BoolWitnesses == {BoolWitness(b) : b \in BOOLEAN}

\* C8 as stated: every combination of the two boolean witnesses resolves to
\* exactly one of the three response types.
C8_EveryCombinationResolves ==
    (op = "get_raw_mempool" /\ arg[1] \in BoolWitnesses /\ arg[2] \in BoolWitnesses) =>
        /\ res.ok
        /\ Cardinality(res.v.response) = 1
        /\ res.v.response \subseteq MempoolResponses

\* C8, amended: every combination but (true, true) resolves to exactly one
\* response type; (true, true) has none and cannot make the call.
C8_AllButVerboseWithSequenceResolve ==
    op = "get_raw_mempool" =>
        /\ res.ok <=> /\ arg[1] \in BoolWitnesses
                      /\ arg[2] \in BoolWitnesses
                      /\ arg # <<BoolWitness(TRUE), BoolWitness(TRUE)>>
        /\ arg = <<BoolWitness(FALSE), BoolWitness(FALSE)>> =>
              res.v.response = {"Vec<Txid>"}
        /\ arg = <<BoolWitness(FALSE), BoolWitness(TRUE)>> =>
              res.v.response = {"RawMempoolWithSequence"}
        /\ arg = <<BoolWitness(TRUE), BoolWitness(FALSE)>> =>
              res.v.response = {"RawMempoolVerbose"}

C8_Witness ==
    /\ op = "get_raw_mempool"
    /\ arg = <<BoolWitness(TRUE), BoolWitness(TRUE)>>
    /\ ~res.ok

\* C9 as stated: a list decodes only when every record carries exactly the
\* fields of the variant its type names.
C9_FieldsAreExactlyTheVariants ==
    (DecodedCommitments /\ res.ok) =>
        \A i \in 1..Len(arg) : DOMAIN arg[i] = ExactKeys(arg[i])

\* The record without the entries that are no field of its variant.
OwnFields(r) ==
    IF HasStringType(r) /\ r["type"].s \in KnownTypes
    THEN [k \in (DOMAIN r) \cap ExactKeys(r) |-> r[k]]
    ELSE r

\* C9, amended: a list decodes only when every record carries every field of
\* the variant its type names; entries that are no field of that variant are
\* ignored: the result is that of the list without them.
C9_FieldsIncludeTheVariants ==
    DecodedCommitments =>
        /\ res.ok => \A i \in 1..Len(arg) : ExactKeys(arg[i]) \subseteq DOMAIN arg[i]
        /\ res = BlockCommitments_deserialize([i \in 1..Len(arg) |-> OwnFields(arg[i])])

C9_Witness ==
    /\ DecodedCommitments
    /\ res.ok
    /\ \E i \in 1..Len(arg) :
          /\ arg[i]["type"].s = TypeSidechainActivationAck
          /\ "prevbytes" \in DOMAIN arg[i]
          /\ res.v[i][2].variant = "SidechainActivationAck"

\* C10: decoding hex into a fixed-size array fails when the string has an
\* odd length, a character that is no hex digit, or another number of bytes
\* than the array; a decoded array holds the bytes of the string, all of
\* them and no other.
C10_FixedSizeHexRejectsMalformed ==
    (op = "DecodeHexField" /\ arg[2].t = "string") =>
        LET s == arg[2].s
            N == FieldWidth(arg[1])
        IN  /\ ( \/ Len(s) % 2 = 1
                 \/ \E i \in 1..Len(s) : s[i] \notin HexDigitChars
                 \/ Len(s) # 2 * N ) => ~res.ok
            /\ res.ok =>
                  /\ Len(res.v) = N
                  /\ \E order \in {[i \in 1..N |-> i], [i \in 1..N |-> N + 1 - i]} :
                        \A i \in 1..N : res.v[i] = WireByte(s, order[i])

C10_Witness ==
    /\ op = "DecodeHexField"
    /\ arg[1] = "noncerange"
    /\ IsHexOfLen(arg[2], 2 * (NonceRangeWidth + 1))
    /\ ~res.ok


HashKeys == {"hash", "previousblockhash", "merkleroot"}

\* The entry x is no well-formed value of the Header field with wire name k.
MalformedHeaderEntry(k, x) ==
    CASE k \in HashKeys -> ~IsHexOfLen(x, 64)
      [] k \in {"height", "time", "nonce"} -> x.t # "number" \/ x.n < 0
      [] k = "version" -> x.t # "number"
      [] k = "bits" -> ~CompactTargetRepr_deserialize(x).ok

HeaderHasMalformedEntry(obj) ==
    \E k \in HeaderKeys \cap DOMAIN obj : MalformedHeaderEntry(k, obj[k])

\* The stored bytes of a hash are the reverse of its 64 hex digits.
HashOfWire(x) == [i \in 1..32 |-> WireByte(x.s, 33 - i)]

\* C11 as stated: a block header with any field missing or malformed on the
\* wire fails to decode, so that no decoded header holds a default in the
\* place of a field the wire did not supply.
C11_NoFieldIsDefaulted ==
    op = "Header_deserialize" =>
        ((~(HeaderKeys \subseteq DOMAIN arg) \/ HeaderHasMalformedEntry(arg)) => ~res.ok)

\* C11: a block header with a malformed field, or with a field other than
\* previousblockhash missing, fails to decode; a header without
\* previousblockhash and otherwise well-formed decodes with the all-zero
\* previous block hash, and one with it decodes with the hash of the wire.
C11_OnlyAbsentPrevBlockHashIsDefaulted ==
    op = "Header_deserialize" =>
        /\ res.ok <=> (HeaderRequired \subseteq DOMAIN arg /\ ~HeaderHasMalformedEntry(arg))
        /\ res.ok =>
              /\ res.v.hash = HashOfWire(arg["hash"])
              /\ res.v.merkle_root = HashOfWire(arg["merkleroot"])
              /\ res.v.prev_blockhash =
                    IF "previousblockhash" \in DOMAIN arg
                    THEN HashOfWire(arg["previousblockhash"])
                    ELSE [i \in 1..32 |-> 0]

\* A header without previousblockhash has decoded.
C11_Witness ==
    /\ op = "Header_deserialize"
    /\ "previousblockhash" \notin DOMAIN arg
    /\ "confirmations" \in DOMAIN arg
    /\ res.ok
    /\ res.v.prev_blockhash = [i \in 1..32 |-> 0]
    /\ res.v.hash # res.v.prev_blockhash


\* The canonical name of each documented spelling of a field.
CanonicalKey(k) ==
    CASE k = "nversion" -> "version"
      [] k \in {"hashid1", "hashID1"} -> "hash_id_1"
      [] k \in {"hashid2", "hashID2"} -> "hash_id_2"
      [] k = "nage" -> "age"
      [] k = "nfail" -> "fail"
      [] OTHER -> k

\* No field of obj is there under two spellings.
OneSpellingEach(obj) ==
    \A k1, k2 \in DOMAIN obj : CanonicalKey(k1) = CanonicalKey(k2) => k1 = k2

UsesAnAlias(obj) == \E k \in DOMAIN obj : CanonicalKey(k) # k

\* obj with every field under its canonical name.
Canonical(obj) ==
    [c \in {CanonicalKey(k) : k \in DOMAIN obj} |->
        obj[CHOOSE k \in DOMAIN obj : CanonicalKey(k) = c]]

InfoCanonicalKeys == {"title", "version", "description", "hash_id_1", "hash_id_2"}
StatusCanonicalKeys == {"title", "description", "age", "fail"}

WellFormedInfo(c) ==
    /\ InfoCanonicalKeys \subseteq DOMAIN c
    /\ c["title"].t = "string" /\ c["description"].t = "string"
    /\ c["version"].t = "number"
    /\ IsHexOfLen(c["hash_id_1"], 64) /\ IsHexOfLen(c["hash_id_2"], 40)

WellFormedStatus(c) ==
    /\ StatusCanonicalKeys \subseteq DOMAIN c
    /\ c["title"].t = "string" /\ c["description"].t = "string"
    /\ c["age"].t = "number" /\ c["age"].n >= 0
    /\ c["fail"].t = "number" /\ c["fail"].n >= 0

\* C12: a SidechainInfo or SidechainActivationStatus object that spells each
\* field once, by its canonical name or by one of its aliases, decodes to
\* what the same object under the canonical names decodes to, the value of
\* each alias in the canonical field; encoding emits the canonical names
\* only, and what it emits decodes to the encoded value.
C12_AliasesPopulateTheCanonicalField ==
    /\ (op = "SidechainInfo_deserialize" /\ OneSpellingEach(arg)) =>
          LET c == Canonical(arg)
          IN  /\ res = SidechainInfo_deserialize(c)
              /\ WellFormedInfo(c) =>
                    /\ res.ok
                    /\ res.v.name = c["title"].s
                    /\ res.v.version = c["version"].n
                    /\ res.v.hash_id_1 = [i \in 1..32 |-> WireByte(c["hash_id_1"].s, i)]
                    /\ res.v.hash_id_2 = [i \in 1..20 |-> WireByte(c["hash_id_2"].s, i)]
    /\ op = "SidechainInfo_serialize" =>
          /\ DOMAIN res = InfoCanonicalKeys
          /\ SidechainInfo_deserialize(res) = Ok(arg)
    /\ (op = "SidechainActivationStatus_deserialize" /\ OneSpellingEach(arg)) =>
          LET c == Canonical(arg)
          IN  /\ res = SidechainActivationStatus_deserialize(c)
              /\ WellFormedStatus(c) =>
                    /\ res.ok
                    /\ res.v.age = c["age"].n
                    /\ res.v.fail = c["fail"].n
    /\ op = "SidechainActivationStatus_serialize" =>
          /\ DOMAIN res = StatusCanonicalKeys
          /\ SidechainActivationStatus_deserialize(res) = Ok(arg)

\* An object that spells version, hash_id_1 and hash_id_2 by aliases has
\* decoded.
C12_Witness ==
    /\ op = "SidechainInfo_deserialize"
    /\ {"nversion", "hashID1", "hashid2"} \subseteq DOMAIN arg
    /\ OneSpellingEach(arg)
    /\ res.ok
    /\ res.v.version = arg["nversion"].n
    /\ res.v.hash_id_2 = [i \in 1..20 |-> WireByte(arg["hashid2"].s, i)]


\* C13: a block-template request obtained with rules or capabilities
\* unspecified, by BlockTemplateRequest::default() or by decoding an object
\* that omits them, has rules = ["segwit"] and no capabilities.
C13_UnspecifiedRequestAsksForSegwit ==
    /\ op = "BlockTemplateRequest_default" =>
          res.rules = <<"segwit">> /\ res.capabilities = {}
    /\ (op = "BlockTemplateRequest_deserialize" /\ res.ok) =>
          /\ "rules" \notin DOMAIN arg => res.v.rules = <<"segwit">>
          /\ "capabilities" \notin DOMAIN arg => res.v.capabilities = {}


\* Byte k of the array is byte k of the hex string x.
InWireOrder(bytes, x) ==
    /\ Len(bytes) * 2 = Len(x.s)
    /\ \A k \in 1..Len(bytes) : bytes[k] = WireByte(x.s, k)

\* Byte k of the array is byte k from the end of the hex string x.
InReversedOrder(bytes, x) ==
    /\ Len(bytes) * 2 = Len(x.s)
    /\ \A k \in 1..Len(bytes) : bytes[k] = WireByte(x.s, Len(bytes) + 1 - k)

\* C14: in a decoded commitment record the 32 bytes of h (BMM h*) and of
\* hash (Sidechain activation ack, Withdrawal bundle hash) are stored in the
\* reverse of the order of the wire hex, and the 4 bytes of prevbytes of the
\* same BMM h* record in the order of the wire hex.
C14_ReversalIsPerField ==
    (DecodedCommitments /\ res.ok) =>
        \A i \in 1..Len(arg) :
            LET c == res.v[i][2]
            IN  /\ c.variant = "BmmHStar" =>
                      /\ Len(c.commitment) = 32
                      /\ InReversedOrder(c.commitment, arg[i]["h"])
                      /\ Len(c.prev_bytes) = 4
                      /\ InWireOrder(c.prev_bytes, arg[i]["prevbytes"])
                /\ c.variant \in {"SidechainActivationAck", "WithdrawalBundleHash"} =>
                      /\ Len(c.commitment) = 32
                      /\ InReversedOrder(c.commitment, arg[i]["hash"])

\* A BMM h* record has decoded whose h and prevbytes both read differently
\* in the two orders, next to a record with a hash.
C14_Witness ==
    /\ DecodedCommitments
    /\ res.ok
    /\ \E i, j \in 1..Len(arg) :
          /\ res.v[i][2].variant = "BmmHStar"
          /\ ~InWireOrder(res.v[i][2].commitment, arg[i]["h"])
          /\ ~InReversedOrder(res.v[i][2].prev_bytes, arg[i]["prevbytes"])
          /\ InWireOrder(res.v[i][2].prev_bytes, arg[i]["prevbytes"])
          /\ res.v[j][2].variant = "WithdrawalBundleHash"
          /\ ~InWireOrder(res.v[j][2].commitment, arg[j]["hash"])


UniqueKeys(entries) ==
    \A i, j \in 1..Len(entries) : entries[i][1] = entries[j][1] => i = j

\* The bytes of the hex string x, of either case.
BytesOfWire(x) == [k \in 1..(Len(x.s) \div 2) |-> WireByte(x.s, k)]

IsHexString(x) ==
    /\ x.t = "string"
    /\ Len(x.s) % 2 = 0
    /\ \A i \in 1..Len(x.s) : x.s[i] \in HexDigitChars

\* The entries that are the last of their key, in their order.
LastOfEachKey(entries) ==
    LET keep == {i \in 1..Len(entries) :
                    \A j \in (i + 1)..Len(entries) : entries[j][1] # entries[i][1]}
        nth(n) == CHOOSE i \in keep : Cardinality({j \in keep : j < i}) = n - 1
    IN  [n \in 1..Cardinality(keep) |-> entries[nth(n)]]

\* C15: a coinbaseaux object whose values are all hex strings decodes to a
\* list of entries with unique keys; an object that repeats no key gives
\* one entry per wire entry, in the order of the wire, each value the bytes
\* of its hex; an object that repeats a key gives each key once, with the
\* value of its last wire entry.  Encoding a decoded map gives its keys in
\* its order with lowercase hex, which decodes to the same map.
C15_CoinbaseAuxIsAnOrderedMap ==
    /\ op = "LinkedHashMapRepr_deserialize_as" =>
          /\ res.ok <=> \A i \in 1..Len(arg) : IsHexString(arg[i][2])
          /\ res.ok =>
                /\ UniqueKeys(res.v)
                /\ {res.v[i][1] : i \in 1..Len(res.v)} = {arg[i][1] : i \in 1..Len(arg)}
                /\ Len(res.v) = Len(LastOfEachKey(arg))
                /\ \A n \in 1..Len(res.v) :
                      /\ res.v[n][1] = LastOfEachKey(arg)[n][1]
                      /\ res.v[n][2] = BytesOfWire(LastOfEachKey(arg)[n][2])
                /\ UniqueKeys(arg) =>
                      /\ Len(res.v) = Len(arg)
                      /\ \A i \in 1..Len(arg) :
                            /\ res.v[i][1] = arg[i][1]
                            /\ res.v[i][2] = BytesOfWire(arg[i][2])
    /\ op = "LinkedHashMapRepr_serialize_as" =>
          /\ Len(res) = Len(arg)
          /\ \A i \in 1..Len(arg) :
                /\ res[i][1] = arg[i][1]
                /\ res[i][2].t = "string"
                /\ \A c \in 1..Len(res[i][2].s) : res[i][2].s[c] = LowerOf(res[i][2].s[c])
          /\ LinkedHashMapRepr_deserialize_as(res) = Ok(arg)

\* An object with a key twice around another key has decoded, one of its
\* values written in capitals.
C15_Witness ==
    /\ op = "LinkedHashMapRepr_deserialize_as"
    /\ res.ok
    /\ Len(arg) = 3
    /\ arg[1][1] = arg[3][1]
    /\ arg[2][1] # arg[1][1]
    /\ arg[1][2] # arg[3][2]
    /\ Len(res.v) = 2
    /\ \E i \in 1..Len(res.v) : res.v[i][2] = <<10, 255>>

====
